---- MODULE Spec2Model ----
(***************************************************************************)
(* A model of src/platforms/vast_schema.py: the PyArrow schema of the      *)
(* ai_documents table, the application-layer validators, the record        *)
(* builder, the provisioning of the table in VASTDB and the command line.  *)
(* Each action is one call of a public function of the module, or one run  *)
(* of the script; `call` holds the function and its arguments, `result`    *)
(* what the call returned or raised.                                       *)
(***************************************************************************)
EXTENDS Integers, Sequences, FiniteSets, TLC

VARIABLES
    VECTOR_DIMENSIONS,  \* module global, read once from the environment
    VASTDB_AVAILABLE,   \* module global: the vastdb SDK could be imported
    VAST_ACCESS_KEY,    \* module global, from the environment ("" if unset)
    VAST_SECRET_KEY,    \* module global, from the environment ("" if unset)
    db,                 \* the external database: what is committed in it
    svc_log,            \* the calls into the external service that the
                        \* call in `call` made, in order
    tx_outcome,         \* how the transaction of that call ended
    clock,              \* the wall clock datetime.now() reads
    call,               \* the call that just ended: [fn |-> ..., ...], or
                        \* Idle once the caller has moved on
    result,             \* its outcome: [kind |-> "return"|"raise", ...]
    seen_schema         \* history: what one earlier call of the schema
                        \* builder returned, [dims, schema]; each call of
                        \* the builder may take its place

\* the module's globals, and the external service
module_state ==
    <<VECTOR_DIMENSIONS, VASTDB_AVAILABLE, VAST_ACCESS_KEY, VAST_SECRET_KEY>>
service == <<db, svc_log, tx_outcome>>

vars == <<module_state, service, clock, call, result, seen_schema>>

----------------------------------------------------------------------------
(* Bounds of the model *)

\* the largest vector dimension tried
MaxDims == 2
\* the longest embedding vector handed to the record builder
MaxVecLen == 2
\* the clock ticks this many times at most
MaxClock == 1

----------------------------------------------------------------------------
(* Python values: a tag `t` (the Python type) and a payload `v` *)

PyNone == [t |-> "NoneType"]
PyStr(s) == [t |-> "str", v |-> s]
PyBool(b) == [t |-> "bool", v |-> b]
\* an int of any size, as two limbs: its value is hi * 2^24 + lo
PyInt(hi, lo) == [t |-> "int", hi |-> hi, lo |-> lo]
\* a float: kind "fin" with n the value in ten-thousandths (100.0001 is
\* 1000001), kind "inf" with n the sign, or kind "nan"
PyFloat(kind, n) == [t |-> "float", kind |-> kind, n |-> n]
PyList(s) == [t |-> "list", v |-> s]
PyDateTime(n) == [t |-> "datetime", tz |-> "UTC", v |-> n]

\* bool(x) for the values the module tests (`if embedding_vector`)
Truthy(x) ==
    CASE x.t = "NoneType" -> FALSE
      [] x.t = "list" -> Len(x.v) > 0
      [] x.t = "str" -> x.v # ""
      [] x.t = "bool" -> x.v
      [] x.t = "int" -> ~(x.hi = 0 /\ x.lo = 0)
      [] OTHER -> TRUE

RECURSIVE Join(_)
Join(s) == IF s = <<>> THEN "" ELSE Head(s) \o Join(Tail(s))

\* x == y of Python, for the values the module compares
PyEq(x, y) == x.t = y.t /\ x = y

\* x in lst: some element of the list equals x
PyIn(x, lst) == \E i \in 1..Len(lst.v) : PyEq(lst.v[i], x)

Digit(d) == <<"0", "1", "2", "3", "4", "5", "6", "7", "8", "9">>[d + 1]

\* the decimal digits of a natural number
RECURSIVE NatStr(_)
NatStr(n) == IF n < 10 THEN Digit(n) ELSE NatStr(n \div 10) \o Digit(n % 10)

\* the fraction digits of f ten-thousandths, trailing zeros dropped
RECURSIVE FracStr(_, _)
FracStr(f, width) ==
    IF width = 1 \/ f = 0 THEN Digit(f \div 1000)
    ELSE Digit(f \div 1000) \o
         (IF f % 1000 = 0 THEN "" ELSE FracStr((f % 1000) * 10, width - 1))

Abs(n) == IF n < 0 THEN -n ELSE n

\* str(x) of a float, as an f-string formats it
FloatStr(x) ==
    CASE x.kind = "nan" -> "nan"
      [] x.kind = "inf" -> IF x.n < 0 THEN "-inf" ELSE "inf"
      [] OTHER -> (IF x.n < 0 THEN "-" ELSE "") \o NatStr(Abs(x.n) \div 10000)
                  \o "." \o FracStr(Abs(x.n) % 10000, 4)

\* repr(x) and str(x), for the values the error messages format (the ints
\* among them are the range bounds, which fit the low limb)
RECURSIVE PyRepr(_)
RECURSIVE ReprItems(_)
ReprItems(s) ==
    IF s = <<>> THEN ""
    ELSE IF Len(s) = 1 THEN PyRepr(s[1])
    ELSE PyRepr(s[1]) \o ", " \o ReprItems(Tail(s))
PyRepr(x) ==
    CASE x.t = "NoneType" -> "None"
      [] x.t = "str" -> "'" \o x.v \o "'"
      [] x.t = "bool" -> IF x.v THEN "True" ELSE "False"
      [] x.t = "int" -> (IF x.lo < 0 THEN "-" ELSE "") \o NatStr(Abs(x.lo))
      [] x.t = "float" -> FloatStr(x)
      [] x.t = "list" -> "[" \o ReprItems(x.v) \o "]"

PyFormat(x) == IF x.t = "str" THEN x.v ELSE PyRepr(x)

\* a < b of Python numbers (int or float): false when either is nan; a
\* number is compared by its value in ten-thousandths
Scaled(x) == IF x.t = "int" THEN x.lo * 10000 ELSE x.n
IsNaN(x) == x.t = "float" /\ x.kind = "nan"
IsInf(x) == x.t = "float" /\ x.kind = "inf"
NumLt(a, b) ==
    IF IsNaN(a) \/ IsNaN(b) THEN FALSE
    ELSE IF IsInf(a) THEN a.n < 0 /\ ~(IsInf(b) /\ b.n < 0)
    ELSE IF IsInf(b) THEN b.n > 0
    ELSE Scaled(a) < Scaled(b)
NumGt(a, b) == NumLt(b, a)

----------------------------------------------------------------------------
(* PyArrow types and fields, as the schema uses them *)

pa_int32 == [id |-> "int32"]
pa_int64 == [id |-> "int64"]
pa_float32 == [id |-> "float"]
pa_float64 == [id |-> "double"]
pa_string == [id |-> "string"]
pa_bool_ == [id |-> "bool"]
pa_timestamp(unit, tz) == [id |-> "timestamp", unit |-> unit, tz |-> tz]

\* pa.field(name, type, nullable)
pa_field3(name, type, nullable) ==
    [name |-> name, type |-> type, nullable |-> nullable]

\* pa.field(name, type): nullable defaults to True
pa_field(name, type) == pa_field3(name, type, TRUE)

\* pa.list_(value_field, list_size): list_size -1 is the variable-length
\* list, a positive list_size the fixed-size list
pa_list_(value_field, list_size) ==
    IF list_size = -1
    THEN [id |-> "list", value_field |-> value_field]
    ELSE [id |-> "fixed_size_list", value_field |-> value_field,
          list_size |-> list_size]

\* a vector field that sizes its list by the module's default dimension
\* and not by the dims it is given
create_vector_field_GlobalDims(name, dims) ==
    LET vector_type ==
            pa_list_(pa_field3("item", pa_float32, FALSE), VECTOR_DIMENSIONS)
    IN  pa_field(name, vector_type)

\* a vector field whose outer column is declared NOT NULL like its item
create_vector_field_NotNull(name, dims) ==
    LET vector_type == pa_list_(pa_field3("item", pa_float32, FALSE), dims)
    IN  pa_field3(name, vector_type, FALSE)

create_vector_field(name, dims) ==
    LET vector_type == pa_list_(pa_field3("item", pa_float32, FALSE), dims)
    IN  pa_field(name, vector_type)

\* the list of fields handed to pa.schema
schema_fields(vector_dims) == <<
    \* Core Identity & Audit (7 fields)
    pa_field("vastdb_rowid", pa_int64),
    pa_field("UUID", pa_string),
    pa_field("RogersAISchemaVersion", pa_string),
    pa_field("InsertDateTime", pa_timestamp("us", "UTC")),
    pa_field("UpdateDateTime", pa_timestamp("us", "UTC")),
    pa_field("InsertUser", pa_string),
    pa_field("UpdateUser", pa_string),
    \* Source Document Metadata (7 fields)
    pa_field("SourceDocumentName", pa_string),
    pa_field("SourceDocumentPath", pa_string),
    pa_field("SourceDocumentHash", pa_string),
    pa_field("SourceDocumentTitle", pa_string),
    pa_field("SourceDocumentSummary", pa_string),
    pa_field("SourceDocumentAuthor", pa_string),
    pa_field("SourceDocumentOrganization", pa_string),
    \* Document Content & Chunking (2 fields)
    pa_field("DocumentChunkNumber", pa_int32),
    pa_field("DocumentChunkText", pa_string),
    \* Vector Embeddings - 5 Providers (15 fields)
    pa_field("DocumentEmbeddingModel01", pa_string),
    pa_field("DocumentEmbeddingURL01", pa_string),
    create_vector_field("DocumentEmbeddingVectors01", vector_dims),
    pa_field("DocumentEmbeddingModel02", pa_string),
    pa_field("DocumentEmbeddingURL02", pa_string),
    create_vector_field("DocumentEmbeddingVectors02", vector_dims),
    pa_field("DocumentEmbeddingModel03", pa_string),
    pa_field("DocumentEmbeddingURL03", pa_string),
    create_vector_field("DocumentEmbeddingVectors03", vector_dims),
    pa_field("DocumentEmbeddingModel04", pa_string),
    pa_field("DocumentEmbeddingURL04", pa_string),
    create_vector_field("DocumentEmbeddingVectors04", vector_dims),
    pa_field("DocumentEmbeddingModel05", pa_string),
    pa_field("DocumentEmbeddingURL05", pa_string),
    create_vector_field("DocumentEmbeddingVectors05", vector_dims),
    \* Privacy & PII Protection (10 fields)
    pa_field("ContainsPII", pa_bool_),
    pa_field("PIITypes", pa_string),
    pa_field("PIIDetectionMethod", pa_string),
    pa_field("PIIDetectionDate", pa_timestamp("us", "UTC")),
    pa_field("SensitiveDataClassification", pa_string),
    pa_field("LegalBasisForProcessing", pa_string),
    pa_field("DataRetentionPeriod", pa_int32),
    pa_field("DeletionScheduledDate", pa_timestamp("us", "UTC")),
    pa_field("DeletionStatus", pa_string),
    pa_field("AnonymizationStatus", pa_string),
    \* Data Governance & Lineage (8 fields)
    pa_field("DatasetType", pa_string),
    pa_field("DatasetPurpose", pa_string),
    pa_field("DataQualityScore", pa_float64),
    pa_field("DataValidationStatus", pa_string),
    pa_field("DataValidationDate", pa_timestamp("us", "UTC")),
    pa_field("DataValidatedBy", pa_string),
    pa_field("DataLineageChain", pa_string),
    pa_field("OriginalSourceType", pa_string),
    \* Legal & Licensing Tracking (6 fields)
    pa_field("CopyrightStatus", pa_string),
    pa_field("LicenseType", pa_string),
    pa_field("UsageRestrictions", pa_string),
    pa_field("CommercialUseAllowed", pa_bool_),
    pa_field("AttributionRequired", pa_bool_),
    pa_field("AttributionText", pa_string),
    \* Risk Management & Content Safety (4 fields)
    pa_field("RiskLevel", pa_string),
    pa_field("ContentSafetyStatus", pa_string),
    pa_field("ContentSafetyScore", pa_float64),
    pa_field("ContentModerationDate", pa_timestamp("us", "UTC")),
    \* Access Control & Security (3 fields)
    pa_field("AccessControlLevel", pa_string),
    pa_field("DataClassification", pa_string),
    pa_field("AllowedRoles", pa_string),
    \* Enhanced Audit Trail (1 field)
    pa_field("LastModifiedReason", pa_string),
    \* Document Lifecycle Management (2 fields)
    pa_field("DocumentStatus", pa_string),
    pa_field("DocumentVersion", pa_string)
>>

\* pa.schema(fields): the fields in the order given
pa_schema(fields) == [i \in 1..Len(fields) |-> fields[i]]

\* a schema builder that leaves the last field of the list out
create_ai_documents_schema_FieldDropped(vector_dims) ==
    pa_schema(SubSeq(schema_fields(vector_dims), 1,
                     Len(schema_fields(vector_dims)) - 1))

\* a schema builder that keeps its field list at module level and extends
\* it on every call, so that a later call returns the earlier fields too
create_ai_documents_schema_Accumulating(vector_dims) ==
    pa_schema(seen_schema.schema \o schema_fields(vector_dims))

create_ai_documents_schema(vector_dims) ==
    pa_schema(schema_fields(vector_dims))

\* print_schema_info: the field groups and the number of fields of each
FieldGroups == <<
    <<"Core Identity & Audit", 7>>,
    <<"Source Document Metadata", 7>>,
    <<"Document Content & Chunking", 2>>,
    <<"Vector Embeddings (5 providers)", 15>>,
    <<"Privacy & PII Protection", 10>>,
    <<"Data Governance & Lineage", 8>>,
    <<"Legal & Licensing Tracking", 6>>,
    <<"Risk Management & Content Safety", 4>>,
    <<"Access Control & Security", 3>>,
    <<"Enhanced Audit Trail", 1>>,
    <<"Document Lifecycle Management", 2>>
>>

----------------------------------------------------------------------------
(* Application-layer validators *)

StrList(s) == PyList([i \in 1..Len(s) |-> PyStr(s[i])])

ENUM_VALUES == [
    PIIDetectionMethod |->
        StrList(<<"automated", "manual", "both", "not_detected">>),
    SensitiveDataClassification |->
        StrList(<<"None", "Low", "Medium", "High", "Critical">>),
    LegalBasisForProcessing |->
        StrList(<<"Consent", "Contract", "LegalObligation",
                  "VitalInterests", "PublicTask", "LegitimateInterests">>),
    DeletionStatus |->
        StrList(<<"Pending", "Scheduled", "Deleted", "Retained",
                  "AwaitingApproval">>),
    AnonymizationStatus |->
        StrList(<<"NotAnonymized", "Pseudonymized", "FullyAnonymized">>),
    DatasetType |->
        StrList(<<"Training", "Validation", "Testing", "Production",
                  "KnowledgeBase", "Archive">>),
    DataValidationStatus |->
        StrList(<<"Pending", "Validated", "Failed", "NeedsReview",
                  "InProgress">>),
    OriginalSourceType |->
        StrList(<<"Web", "Database", "API", "FileSystem", "Manual",
                  "Email", "S3", "SharePoint", "Other">>),
    CopyrightStatus |->
        StrList(<<"PublicDomain", "Copyrighted", "CreativeCommons",
                  "Unknown", "ProprietaryInternal">>),
    RiskLevel |->
        StrList(<<"Low", "Medium", "High", "Critical", "Unassessed">>),
    ContentSafetyStatus |->
        StrList(<<"Safe", "Flagged", "Unsafe", "UnderReview", "NotAssessed">>),
    AccessControlLevel |->
        StrList(<<"Public", "Internal", "Confidential", "Restricted",
                  "Classified">>),
    DocumentStatus |->
        StrList(<<"Draft", "Active", "Deprecated", "Archived", "Deleted",
                  "UnderReview">>)
]

Returned(v) == [kind |-> "return", value |-> v]
Raised(type, parts) == [kind |-> "raise", type |-> type, parts |-> parts]

\* an enum validator whose membership test stops one short of the end of
\* the list
validate_enum_field_SkipsLast(value, allowed_values, field_name) ==
    IF ~(\E i \in 1..(Len(allowed_values.v) - 1) :
            PyEq(allowed_values.v[i], value))
    THEN Raised("ValueError",
                <<"Invalid value '", PyFormat(value), "' for ", field_name,
                  ". ", "Allowed values: ", PyFormat(allowed_values)>>)
    ELSE Returned(value)

validate_enum_field(value, allowed_values, field_name) ==
    IF ~PyIn(value, allowed_values)
    THEN Raised("ValueError",
                <<"Invalid value '", PyFormat(value), "' for ", field_name,
                  ". ", "Allowed values: ", PyFormat(allowed_values)>>)
    ELSE Returned(value)

\* the defaults min_val = 0 and max_val = 100
DEFAULT_MIN_VAL == PyInt(0, 0)
DEFAULT_MAX_VAL == PyInt(0, 100)

validate_score_range(value, field_name, min_val, max_val) ==
    IF NumLt(value, min_val) \/ NumGt(value, max_val)
    THEN Raised("ValueError",
                <<"Invalid value ", PyFormat(value), " for ", field_name,
                  ". ", "Must be between ", PyFormat(min_val), " and ",
                  PyFormat(max_val)>>)
    ELSE Returned(value)

----------------------------------------------------------------------------
(* The record builder *)

ROGERS_AI_SCHEMA_VERSION == "1.0.0-tier1"

HexDigit(d) ==
    <<"0", "1", "2", "3", "4", "5", "6", "7", "8", "9",
      "a", "b", "c", "d", "e", "f">>[d + 1]

\* uuid.uuid4(): 32 hex digits from the random source, rnd[i] in 0..15, with
\* the version digit set to 4 and the variant bits to 10
uuid4(rnd) ==
    [i \in 1..32 |->
        IF i = 13 THEN 4
        ELSE IF i = 17 THEN 8 + (rnd[i] % 4)
        ELSE rnd[i]]

\* str(uuid): the digits in groups of 8-4-4-4-12
RECURSIVE HexStr(_, _, _)
HexStr(u, from, to) ==
    IF from > to THEN "" ELSE HexDigit(u[from]) \o HexStr(u, from + 1, to)
UuidStr(u) ==
    HexStr(u, 1, 8) \o "-" \o HexStr(u, 9, 12) \o "-" \o HexStr(u, 13, 16)
    \o "-" \o HexStr(u, 17, 20) \o "-" \o HexStr(u, 21, 32)

generate_uuid(rnd) == PyStr(UuidStr(uuid4(rnd)))

\* datetime.now(timezone.utc)
get_current_timestamp == PyDateTime(clock)

\* a dict literal: the keys of the items, each with the value of its last
\* item
Keys(items) == {items[i][1] : i \in 1..Len(items)}
LastIndex(items, k) ==
    CHOOSE i \in 1..Len(items) :
        /\ items[i][1] = k
        /\ \A j \in (i + 1)..Len(items) : items[j][1] # k
dict(items) == [k \in Keys(items) |-> items[LastIndex(items, k)][2]]

\* the items of the record literal, in the order written
record_items(insert_user, document_name, chunk_text, embedding_vector, vastdb_rowid, now, uuid) == <<
    \* Core Identity & Audit
    <<"vastdb_rowid", vastdb_rowid>>,
    <<"UUID", uuid>>,
    <<"RogersAISchemaVersion", PyStr(ROGERS_AI_SCHEMA_VERSION)>>,
    <<"InsertDateTime", now>>,
    <<"UpdateDateTime", now>>,
    <<"InsertUser", insert_user>>,
    <<"UpdateUser", insert_user>>,
    \* Source Document Metadata
    <<"SourceDocumentName", document_name>>,
    <<"SourceDocumentPath", PyNone>>,
    <<"SourceDocumentHash", PyNone>>,
    <<"SourceDocumentTitle", PyNone>>,
    <<"SourceDocumentSummary", PyNone>>,
    <<"SourceDocumentAuthor", PyNone>>,
    <<"SourceDocumentOrganization", PyNone>>,
    \* Document Content & Chunking
    <<"DocumentChunkNumber", PyInt(0, 1)>>,
    <<"DocumentChunkText", chunk_text>>,
    \* Vector Embeddings (set first provider if vector provided)
    <<"DocumentEmbeddingModel01",
      IF Truthy(embedding_vector) THEN PyStr("example-model") ELSE PyNone>>,
    <<"DocumentEmbeddingURL01", PyNone>>,
    <<"DocumentEmbeddingVectors01", embedding_vector>>,
    <<"DocumentEmbeddingModel02", PyNone>>,
    <<"DocumentEmbeddingURL02", PyNone>>,
    <<"DocumentEmbeddingVectors02", PyNone>>,
    <<"DocumentEmbeddingModel03", PyNone>>,
    <<"DocumentEmbeddingURL03", PyNone>>,
    <<"DocumentEmbeddingVectors03", PyNone>>,
    <<"DocumentEmbeddingModel04", PyNone>>,
    <<"DocumentEmbeddingURL04", PyNone>>,
    <<"DocumentEmbeddingVectors04", PyNone>>,
    <<"DocumentEmbeddingModel05", PyNone>>,
    <<"DocumentEmbeddingURL05", PyNone>>,
    <<"DocumentEmbeddingVectors05", PyNone>>,
    \* Privacy & PII Protection (defaults for non-PII content)
    <<"ContainsPII", PyBool(FALSE)>>,
    <<"PIITypes", PyNone>>,
    <<"PIIDetectionMethod", PyStr("not_detected")>>,
    <<"PIIDetectionDate", now>>,
    <<"SensitiveDataClassification", PyStr("None")>>,
    <<"LegalBasisForProcessing", PyNone>>,
    <<"DataRetentionPeriod", PyNone>>,
    <<"DeletionScheduledDate", PyNone>>,
    <<"DeletionStatus", PyNone>>,
    <<"AnonymizationStatus", PyStr("NotAnonymized")>>,
    \* Data Governance & Lineage
    <<"DatasetType", PyStr("Production")>>,
    <<"DatasetPurpose", PyNone>>,
    <<"DataQualityScore", PyNone>>,
    <<"DataValidationStatus", PyStr("Pending")>>,
    <<"DataValidationDate", PyNone>>,
    <<"DataValidatedBy", PyNone>>,
    <<"DataLineageChain", PyNone>>,
    <<"OriginalSourceType", PyStr("FileSystem")>>,
    \* Legal & Licensing
    <<"CopyrightStatus", PyNone>>,
    <<"LicenseType", PyNone>>,
    <<"UsageRestrictions", PyNone>>,
    <<"CommercialUseAllowed", PyNone>>,
    <<"AttributionRequired", PyNone>>,
    <<"AttributionText", PyNone>>,
    \* Risk Management
    <<"RiskLevel", PyStr("Low")>>,
    <<"ContentSafetyStatus", PyStr("NotAssessed")>>,
    <<"ContentSafetyScore", PyNone>>,
    <<"ContentModerationDate", PyNone>>,
    \* Access Control
    <<"AccessControlLevel", PyStr("Internal")>>,
    <<"DataClassification", PyNone>>,
    <<"AllowedRoles", PyNone>>,
    \* Audit Trail
    <<"LastModifiedReason", PyStr("Initial insert")>>,
    \* Lifecycle
    <<"DocumentStatus", PyStr("Active")>>,
    <<"DocumentVersion", PyStr("1.0")>>
>>

\* a record builder that passes the document name where the user goes
create_example_record_Swapped(insert_user, document_name, chunk_text, embedding_vector, vastdb_rowid, rnd) ==
    dict(record_items(document_name, insert_user, chunk_text,
                      embedding_vector, vastdb_rowid, get_current_timestamp,
                      generate_uuid(rnd)))

\* a record builder that tests the row identifier for truth (`vastdb_rowid
\* or None`), as it does the embedding vector
create_example_record_TruthyRowId(insert_user, document_name, chunk_text, embedding_vector, vastdb_rowid, rnd) ==
    dict(record_items(insert_user, document_name, chunk_text,
                      embedding_vector,
                      IF Truthy(vastdb_rowid) THEN vastdb_rowid ELSE PyNone,
                      get_current_timestamp, generate_uuid(rnd)))

\* a record builder whose literal lacks its last key
create_example_record_KeyDropped(insert_user, document_name, chunk_text, embedding_vector, vastdb_rowid, rnd) ==
    LET items == record_items(insert_user, document_name, chunk_text,
                              embedding_vector, vastdb_rowid,
                              get_current_timestamp, generate_uuid(rnd))
    IN  dict(SubSeq(items, 1, Len(items) - 1))

\* a record builder whose risk-level default is written in the wrong case
create_example_record_WrongCase(insert_user, document_name, chunk_text, embedding_vector, vastdb_rowid, rnd) ==
    [dict(record_items(insert_user, document_name, chunk_text,
                       embedding_vector, vastdb_rowid, get_current_timestamp,
                       generate_uuid(rnd)))
        EXCEPT !.RiskLevel = PyStr("low")]

\* create_example_record: rnd is what uuid4 draws during the call
create_example_record(insert_user, document_name, chunk_text, embedding_vector, vastdb_rowid, rnd) ==
    LET now == get_current_timestamp
        record == dict(record_items(insert_user, document_name, chunk_text,
                                    embedding_vector, vastdb_rowid, now,
                                    generate_uuid(rnd)))
    IN  record

----------------------------------------------------------------------------
(* Provisioning of the table in VASTDB *)

VAST_ENDPOINT == "localhost"
BUCKET_NAME == "octo-db"
SCHEMA_NAME == "rogers_ai_schema"
TABLE_NAME == "ai_documents"

\* pa.list_ takes -1 and the sizes from 0 up; a list_size below -1 raises
\* ValueError
pa_list_rejects(list_size) == list_size < -1

\* the database holds buckets, the schemas (namespaces) of a bucket and
\* the tables of a schema; db.tables gives the Arrow schema of each table,
\* NoTable where there is none
NoTable == <<>>
TableNames == {TABLE_NAME, "ai_documents_dev"}
NoTables == [n \in TableNames |-> NoTable]

\* a table of another shape, as an earlier version of an application left it
LegacySchema == <<pa_field("id", pa_int64), pa_field("text", pa_string)>>

\* what the tables may hold before the module is run
StoredSchemas ==
    {create_ai_documents_schema(d) : d \in 1..MaxDims} \cup {LegacySchema}

DbStates ==
    {[buckets |-> {}, schemas |-> {}, tables |-> NoTables],
     [buckets |-> {BUCKET_NAME}, schemas |-> {}, tables |-> NoTables]}
    \cup {[buckets |-> {BUCKET_NAME}, schemas |-> {SCHEMA_NAME},
           tables |-> t] : t \in [TableNames -> StoredSchemas \cup {NoTable}]}

\* the calls into the service that may fail, and "create_table_none": the
\* service answers create_table with no table handle
Faults ==
    {"none", "connect", "transaction", "bucket", "schema", "create_schema",
     "table", "drop", "create_table", "create_table_none"}

Op(op, arg) == [op |-> op, arg |-> arg]
ServiceError(op) == Raised("ServiceError", <<op>>)

\* what one invocation leaves behind: its result, the calls it made into
\* the service, how its transaction ended and the database after it
Outcome(res, log, tx, store) ==
    [result |-> res, log |-> log, tx |-> tx, db |-> store]

\* the session and the transaction of create_table_in_vastdb: `store` is
\* the database before, `fault` the call at which the service fails.  The
\* transaction commits when its block is left by return or at its end, and
\* rolls back when an exception leaves it.
provision_transaction(store, table_name, arrow_schema, drop_existing, fault) ==
    LET l1 == <<Op("connect", VAST_ENDPOINT)>>
        l2 == Append(l1, Op("transaction", ""))
        l3 == Append(l2, Op("bucket", BUCKET_NAME))
        l4 == Append(l3, Op("schema", SCHEMA_NAME))
        schema == SCHEMA_NAME \in store.schemas
        l5 == IF schema THEN l4
              ELSE Append(l4, Op("create_schema", SCHEMA_NAME))
        t5 == IF schema THEN store
              ELSE [store EXCEPT !.schemas = @ \cup {SCHEMA_NAME}]
        l6 == Append(l5, Op("table", table_name))
        existing_table == t5.tables[table_name]
        l7 == IF existing_table # NoTable
              THEN Append(l6, Op("drop", table_name)) ELSE l6
        t7 == [t5 EXCEPT !.tables[table_name] = NoTable]
        l8 == Append(l7, Op("create_table", table_name))
        t8 == [t7 EXCEPT !.tables[table_name] = arrow_schema]
    IN  IF fault = "connect"
        THEN Outcome(ServiceError("connect"), l1, "none", store)
        ELSE IF fault = "transaction"
        THEN Outcome(ServiceError("transaction"), l2, "none", store)
        ELSE IF fault = "bucket" \/ BUCKET_NAME \notin store.buckets
        THEN Outcome(ServiceError("bucket"), l3, "rollback", store)
        ELSE IF fault = "schema"
        THEN Outcome(ServiceError("schema"), l4, "rollback", store)
        ELSE IF ~schema /\ fault = "create_schema"
        THEN Outcome(ServiceError("create_schema"), l5, "rollback", store)
        ELSE IF fault = "table"
        THEN Outcome(ServiceError("table"), l6, "rollback", store)
        ELSE IF existing_table # NoTable /\ ~drop_existing
        THEN Outcome(Returned(PyBool(TRUE)), l6, "commit", t5)
        ELSE IF existing_table # NoTable /\ fault = "drop"
        THEN Outcome(ServiceError("drop"), l7, "rollback", store)
        ELSE IF fault = "create_table"
        THEN Outcome(ServiceError("create_table"), l8, "rollback", store)
        ELSE IF fault = "create_table_none"
        THEN Outcome(Returned(PyBool(FALSE)), l8, "commit", t7)
        ELSE Outcome(Returned(PyBool(TRUE)), l8, "commit", t8)

SDK_MISSING ==
    Raised("RuntimeError",
           <<"vastdb SDK is not installed. Install with: pip install vastdb">>)
LIST_SIZE_ERROR ==
    Raised("ValueError", <<"list_size should be a positive integer">>)

\* a provisioning that answers a failure of the service with False
create_table_in_vastdb_Swallowing(store, table_name, vector_dims, drop_existing, fault) ==
    IF ~VASTDB_AVAILABLE THEN Outcome(SDK_MISSING, <<>>, "none", store)
    ELSE IF pa_list_rejects(vector_dims)
    THEN Outcome(LIST_SIZE_ERROR, <<>>, "none", store)
    ELSE LET out == provision_transaction(
                        store, table_name,
                        create_ai_documents_schema(vector_dims),
                        drop_existing, fault)
         IN  IF out.result.kind = "raise"
             THEN [out EXCEPT !.result = Returned(PyBool(FALSE))]
             ELSE out

\* a provisioning that drops and recreates the table whatever drop_existing
create_table_in_vastdb_AlwaysRecreates(store, table_name, vector_dims, drop_existing, fault) ==
    IF ~VASTDB_AVAILABLE THEN Outcome(SDK_MISSING, <<>>, "none", store)
    ELSE IF pa_list_rejects(vector_dims)
    THEN Outcome(LIST_SIZE_ERROR, <<>>, "none", store)
    ELSE provision_transaction(store, table_name,
                               create_ai_documents_schema(vector_dims),
                               TRUE, fault)

\* create_table_in_vastdb(table_name=..., vector_dims=..., drop_existing=...)
\* with the endpoint, the keys, the bucket and the schema name at their
\* defaults
create_table_in_vastdb(store, table_name, vector_dims, drop_existing, fault) ==
    IF ~VASTDB_AVAILABLE THEN Outcome(SDK_MISSING, <<>>, "none", store)
    ELSE IF pa_list_rejects(vector_dims)
    THEN Outcome(LIST_SIZE_ERROR, <<>>, "none", store)
    ELSE provision_transaction(store, table_name,
                               create_ai_documents_schema(vector_dims),
                               drop_existing, fault)

----------------------------------------------------------------------------
(* The command line *)

Exit(code, printed) == [kind |-> "exit", code |-> code, printed |-> printed]

\* the `if args.create:` block of the script, after `printed` has gone out
main_create(store, drop, dims, fault, printed) ==
    IF VAST_ACCESS_KEY = "" \/ VAST_SECRET_KEY = ""
    THEN Outcome(Exit(1, Append(printed, "credentials_error")),
                 <<>>, "none", store)
    ELSE LET warned == IF drop THEN Append(printed, "drop_warning")
                       ELSE printed
             out == create_table_in_vastdb(store, TABLE_NAME, dims, drop,
                                           fault)
             success == out.result.kind = "return" /\ Truthy(out.result.value)
         IN  IF out.result.kind = "raise"
             THEN [out EXCEPT
                     !.result = Exit(1, Append(warned, "error_creating"))]
             ELSE IF success
             THEN [out EXCEPT
                     !.result = Exit(0, Append(warned, "completed"))]
             ELSE [out EXCEPT
                     !.result = Exit(1, Append(warned, "creation_failed"))]

\* a script that goes on to provision without looking at the keys
main_NoCredentialCheck(store, info, create, drop, examples, dims, fault) ==
    LET show_info == info \/ (~create /\ ~examples)
        p1 == IF show_info THEN <<"schema_info">> ELSE <<>>
        p2 == IF examples THEN Append(p1, "examples") ELSE p1
        out == create_table_in_vastdb(store, TABLE_NAME, dims, drop, fault)
    IN  IF show_info /\ pa_list_rejects(dims)
        THEN Outcome(Exit(1, <<"traceback">>), <<>>, "none", store)
        ELSE IF create
        THEN [out EXCEPT
                !.result = Exit(IF out.result = Returned(PyBool(TRUE))
                                THEN 0 ELSE 1, p2)]
        ELSE Outcome(Exit(0, p2), <<>>, "none", store)

\* a script that takes --drop alone as an order to recreate the table
main_DropAlone(store, info, create, drop, examples, dims, fault) ==
    LET show_info == info \/ (~create /\ ~examples)
        p1 == IF show_info THEN <<"schema_info">> ELSE <<>>
        p2 == IF examples THEN Append(p1, "examples") ELSE p1
    IN  IF show_info /\ pa_list_rejects(dims)
        THEN Outcome(Exit(1, <<"traceback">>), <<>>, "none", store)
        ELSE IF create \/ drop
        THEN main_create(store, drop, dims, fault, p2)
        ELSE Outcome(Exit(0, p2), <<>>, "none", store)

\* one run of the script with the flags given; print_schema_info builds
\* the schema, and the ValueError of a list size PyArrow refuses is caught
\* nowhere: the interpreter prints the traceback and exits with status 1
main(store, info, create, drop, examples, dims, fault) ==
    LET show_info == info \/ (~create /\ ~examples)
        p1 == IF show_info THEN <<"schema_info">> ELSE <<>>
        p2 == IF examples THEN Append(p1, "examples") ELSE p1
    IN  IF show_info /\ pa_list_rejects(dims)
        THEN Outcome(Exit(1, <<"traceback">>), <<>>, "none", store)
        ELSE IF create
        THEN main_create(store, drop, dims, fault, p2)
        ELSE Outcome(Exit(0, p2), <<>>, "none", store)

----------------------------------------------------------------------------
(* The calls *)

\* VECTOR_DIMENSIONS = int(os.environ.get("VECTOR_DIMENSIONS", "1024"))
DEFAULT_VECTOR_DIMENSIONS == 1024

\* the vector dimensions a caller passes: -1 (which PyArrow reads as "no
\* fixed size") and 1..MaxDims
Dims == {-1} \cup (1..MaxDims)

NoSchema == [dims |-> 0, schema |-> <<>>]
Idle == [fn |-> "idle"]
NoResult == [kind |-> "none"]

\* the module has been imported and nothing called yet
NothingCalled ==
    /\ clock = 0
    /\ call = Idle
    /\ result = NoResult
    /\ seen_schema = NoSchema
    /\ svc_log = <<>>
    /\ tx_outcome = "none"

\* on a host without the vastdb SDK and with no keys in the environment
Init ==
    /\ VECTOR_DIMENSIONS \in {DEFAULT_VECTOR_DIMENSIONS, MaxDims}
    /\ VASTDB_AVAILABLE = FALSE
    /\ VAST_ACCESS_KEY = ""
    /\ VAST_SECRET_KEY = ""
    /\ db = [buckets |-> {}, schemas |-> {}, tables |-> NoTables]
    /\ NothingCalled

\* the keys the environment may hold
KeyInputs == {"", "key"}

\* on any host, with or without the SDK and the keys, against a database
\* in any state
InitProvision ==
    /\ VECTOR_DIMENSIONS \in {DEFAULT_VECTOR_DIMENSIONS, MaxDims}
    /\ VASTDB_AVAILABLE \in BOOLEAN
    /\ VAST_ACCESS_KEY \in KeyInputs
    /\ VAST_SECRET_KEY \in KeyInputs
    /\ db \in DbStates
    /\ NothingCalled

\* the wall clock advances between calls
Tick ==
    /\ call = Idle
    /\ clock < MaxClock
    /\ clock' = clock + 1
    /\ UNCHANGED <<module_state, service, call, result, seen_schema>>

\* create_ai_documents_schema(d), or create_ai_documents_schema() with the
\* default vector_dims = VECTOR_DIMENSIONS.  call.repeat records that the
\* remembered earlier call asked for the same dims.
CallCreateSchema ==
    \E args \in {<<>>} \cup {<<d>> : d \in Dims} :
        LET vector_dims == IF args = <<>> THEN VECTOR_DIMENSIONS ELSE args[1]
            schema == create_ai_documents_schema(vector_dims)
        IN  /\ call = Idle
            /\ call' = [fn |-> "create_ai_documents_schema", args |-> args,
                        vector_dims |-> vector_dims,
                        repeat |-> seen_schema.dims = vector_dims]
            /\ result' = Returned(schema)
            /\ seen_schema' \in
                    {[dims |-> vector_dims, schema |-> schema]}
                    \cup (IF seen_schema = NoSchema THEN {} ELSE {seen_schema})
            /\ UNCHANGED <<module_state, service, clock>>

\* the values handed to the enum validator: every allowed value of every
\* field, and values no field allows (wrong case, empty, padded, None)
EnumInputs ==
    UNION {{ENUM_VALUES[f].v[i] : i \in 1..Len(ENUM_VALUES[f].v)} :
           f \in DOMAIN ENUM_VALUES}
    \cup {PyStr("low"), PyStr("ACTIVE"), PyStr(""), PyStr("Active "), PyNone}

\* validate_enum_field(value, ENUM_VALUES[field_name], field_name)
CallValidateEnum ==
    \E field_name \in DOMAIN ENUM_VALUES, value \in EnumInputs :
        /\ call = Idle
        /\ call' = [fn |-> "validate_enum_field", value |-> value,
                    allowed_values |-> ENUM_VALUES[field_name],
                    field_name |-> field_name]
        /\ result' = validate_enum_field(value, ENUM_VALUES[field_name],
                                         field_name)
        /\ UNCHANGED <<module_state, service, clock, seen_schema>>

\* the scores handed to the range validator: the boundary values of the
\* default range and their neighbours, a value inside, and the floats that
\* are no finite number
ScoreInputs ==
    {PyFloat("fin", n) : n \in {-1, 0, 5000, 505000, 1000000, 1000001}}
    \cup {PyInt(0, 0), PyInt(0, 100), PyFloat("inf", 1), PyFloat("inf", -1),
          PyFloat("nan", 0)}

\* the (min_val, max_val) a caller passes, the defaults first
RangeInputs ==
    {<<DEFAULT_MIN_VAL, DEFAULT_MAX_VAL>>,
     <<PyFloat("fin", 0), PyFloat("fin", 10000)>>,
     <<PyInt(0, 100), PyInt(0, 0)>>}

ScoreFields == {"DataQualityScore", "ContentSafetyScore"}

\* validate_score_range(value, field_name[, min_val, max_val])
CallValidateScore ==
    \E value \in ScoreInputs, field_name \in ScoreFields,
       range \in RangeInputs :
        /\ call = Idle
        /\ call' = [fn |-> "validate_score_range", value |-> value,
                    field_name |-> field_name, min_val |-> range[1],
                    max_val |-> range[2]]
        /\ result' = validate_score_range(value, field_name, range[1],
                                          range[2])
        /\ UNCHANGED <<module_state, service, clock, seen_schema>>

\* the single-threaded caller is done with the result and moves on to its
\* next call
Discard ==
    /\ call # Idle
    /\ call' = Idle
    /\ result' = NoResult
    /\ svc_log' = <<>>
    /\ tx_outcome' = "none"
    /\ UNCHANGED <<module_state, db, clock, seen_schema>>

Users == {PyStr("alice"), PyStr("bob")}
DocumentNames == {PyStr("doc.pdf"), PyStr("a.txt")}
ChunkTexts == {PyStr("hello"), PyStr("")}

\* the embedding vectors handed in: none, or a list of 0..MaxVecLen floats
VecElems == {PyFloat("fin", 1250), PyFloat("fin", -5000)}
EmbeddingInputs ==
    {PyNone} \cup
    UNION {{PyList(v) : v \in [1..n -> VecElems]} : n \in 0..MaxVecLen}

\* the row identifiers handed in: none (internal allocation), 0, the largest
\* the engine takes (2^48 - 1) and the first it does not (2^48)
RowIdInputs ==
    {PyNone, PyInt(0, 0), PyInt(16777215, 16777215), PyInt(16777216, 0)}

\* what uuid4 may draw: every digit 3, or every digit 14
RandomInputs == {[i \in 1..32 |-> d] : d \in {3, 14}}

\* create_example_record(insert_user, document_name, chunk_text
\*                       [, embedding_vector][, vastdb_rowid])
CallCreateRecord ==
    \E insert_user \in Users, document_name \in DocumentNames,
       chunk_text \in ChunkTexts, embedding_vector \in EmbeddingInputs,
       vastdb_rowid \in RowIdInputs, rnd \in RandomInputs :
        /\ call = Idle
        /\ call' = [fn |-> "create_example_record",
                    insert_user |-> insert_user,
                    document_name |-> document_name,
                    chunk_text |-> chunk_text,
                    embedding_vector |-> embedding_vector,
                    vastdb_rowid |-> vastdb_rowid]
        /\ result' = Returned(create_example_record(
                          insert_user, document_name, chunk_text,
                          embedding_vector, vastdb_rowid, rnd))
        /\ UNCHANGED <<module_state, service, clock, seen_schema>>

\* the vector dimensions handed to the provisioning and to --dims: those
\* of Dims, and -2, which PyArrow refuses
ProvisionDims == Dims \cup {-2}

\* the fault as far as the run met it: `fault` when the run made the call
\* at which the service fails, "none" when it never came to that call
MetFault(out, fault) ==
    LET op == IF fault = "create_table_none" THEN "create_table" ELSE fault
    IN  IF \E i \in 1..Len(out.log) : out.log[i].op = op
        THEN fault ELSE "none"

\* create_table_in_vastdb(table_name=..., drop_existing=...[, vector_dims])
\* against the database as it stands; call.before keeps the database the
\* call found
CallCreateTable ==
    \E table_name \in TableNames, drop_existing \in BOOLEAN,
       args \in {<<>>} \cup {<<d>> : d \in ProvisionDims}, fault \in Faults :
        LET vector_dims == IF args = <<>> THEN VECTOR_DIMENSIONS ELSE args[1]
            out == create_table_in_vastdb(db, table_name, vector_dims,
                                          drop_existing, fault)
        IN  /\ call = Idle
            /\ call' = [fn |-> "create_table_in_vastdb",
                        table_name |-> table_name,
                        vector_dims |-> vector_dims,
                        drop_existing |-> drop_existing,
                        fault |-> MetFault(out, fault), before |-> db]
            /\ result' = out.result
            /\ db' = out.db
            /\ svc_log' = out.log
            /\ tx_outcome' = out.tx
            /\ UNCHANGED <<module_state, clock, seen_schema>>

\* python vast_schema.py [--info] [--create] [--drop] [--examples] [--dims N]
CliRun ==
    \E info \in BOOLEAN, create \in BOOLEAN, drop \in BOOLEAN,
       examples \in BOOLEAN,
       args \in {<<>>} \cup {<<d>> : d \in ProvisionDims}, fault \in Faults :
        LET dims == IF args = <<>> THEN VECTOR_DIMENSIONS ELSE args[1]
            out == main(db, info, create, drop, examples, dims, fault)
        IN  /\ call = Idle
            /\ call' = [fn |-> "__main__", info |-> info, create |-> create,
                        drop |-> drop, examples |-> examples, dims |-> dims,
                        fault |-> MetFault(out, fault), before |-> db]
            /\ result' = out.result
            /\ db' = out.db
            /\ svc_log' = out.log
            /\ tx_outcome' = out.tx
            /\ UNCHANGED <<module_state, clock, seen_schema>>

Next ==
    \/ Tick
    \/ Discard
    \/ CallCreateSchema
    \/ CallValidateEnum
    \/ CallValidateScore
    \/ CallCreateRecord

Spec == Init /\ [][Next]_vars

\* the provisioning and the command line, against every database
NextProvision ==
    \/ Discard
    \/ CallCreateTable
    \/ CliRun

SpecProvision == InitProvision /\ [][NextProvision]_vars

----------------------------------------------------------------------------
(* Properties of the schema builder *)

\* "all 52 Tier 1 fields"
TOTAL_FIELDS == 52

SchemaReturned ==
    call.fn = "create_ai_documents_schema" /\ result.kind = "return"

Names(schema) == [i \in 1..Len(schema) |-> schema[i].name]

RECURSIVE GroupTotal(_)
GroupTotal(groups) ==
    IF groups = <<>> THEN 0 ELSE Head(groups)[2] + GroupTotal(Tail(groups))

\* the field names in the order of the record literal
RecordKeyOrder ==
    LET items == record_items(PyNone, PyNone, PyNone, PyNone, PyNone,
                              PyNone, PyNone)
    IN  [i \in 1..Len(items) |-> items[i][1]]

VECTOR_COLUMNS ==
    {"DocumentEmbeddingVectors01", "DocumentEmbeddingVectors02",
     "DocumentEmbeddingVectors03", "DocumentEmbeddingVectors04",
     "DocumentEmbeddingVectors05"}

\* the column types that carry no dimension
ScalarTypes ==
    {pa_int32, pa_int64, pa_float64, pa_string, pa_bool_,
     pa_timestamp("us", "UTC")}

\* the schema has as many columns as print_schema_info's groups add up to,
\* in the order of the record literal, whatever the dimension
SchemaColumnsMatchFieldGroups ==
    SchemaReturned =>
        /\ Len(result.value) = GroupTotal(FieldGroups)
        /\ Names(result.value) = RecordKeyOrder

\* C1: for every vector dimension N > 0 the schema returned has exactly 52
\* columns, and their names come in one fixed order (that of the record
\* literal), whatever N is.
C1_SchemaHas52ColumnsInFixedOrder ==
    (SchemaReturned /\ call.vector_dims > 0) =>
        /\ Len(result.value) = TOTAL_FIELDS
        /\ Names(result.value) = RecordKeyOrder

\* C2: for every N > 0 the schema has exactly five embedding-vector
\* columns, DocumentEmbeddingVectors01..05; each is a nullable column whose
\* type is a fixed-size list of length N with a non-nullable 32-bit float
\* item named "item"; every other column has a scalar type without N.
C2_VectorColumnsAreFixedLengthN ==
    (SchemaReturned /\ call.vector_dims > 0) =>
        LET schema == result.value
            V == {i \in 1..Len(schema) : schema[i].name \in VECTOR_COLUMNS}
        IN  /\ Cardinality(V) = 5
            /\ {schema[i].name : i \in V} = VECTOR_COLUMNS
            /\ \A i \in V :
                   /\ schema[i].nullable
                   /\ schema[i].type.id = "fixed_size_list"
                   /\ schema[i].type.list_size = call.vector_dims
                   /\ schema[i].type.value_field.name = "item"
                   /\ schema[i].type.value_field.type = pa_float32
                   /\ ~schema[i].type.value_field.nullable
            /\ \A i \in (1..Len(schema)) \ V :
                   schema[i].type \in ScalarTypes

C2_Witness ==
    /\ SchemaReturned
    /\ call.vector_dims > 0
    /\ call.vector_dims # VECTOR_DIMENSIONS
    /\ result.value[19].type.id = "fixed_size_list"

\* C3: every top-level column of the schema returned is nullable, for every
\* N (the variable-length case N = -1 included).
C3_EveryColumnNullable ==
    SchemaReturned =>
        \A i \in 1..Len(result.value) : result.value[i].nullable

C3_Witness ==
    /\ SchemaReturned
    /\ call.args = <<>>
    /\ result.value[31].nullable

\* C4: a call of the schema builder changes no module state (the configured
\* dimension, the clock), and returns a schema equal field by field to the
\* one any earlier call with the same N returned, whatever calls came
\* between them.
C4_SchemaBuilderPure ==
    [][(call = Idle /\ call'.fn = "create_ai_documents_schema") =>
          /\ VECTOR_DIMENSIONS' = VECTOR_DIMENSIONS
          /\ clock' = clock
          /\ (seen_schema.dims = call'.vector_dims =>
                 /\ Len(result'.value) = Len(seen_schema.schema)
                 /\ \A i \in 1..Len(result'.value) :
                        /\ result'.value[i].name = seen_schema.schema[i].name
                        /\ result'.value[i].type = seen_schema.schema[i].type
                        /\ result'.value[i].nullable
                               = seen_schema.schema[i].nullable)]_vars

C4_Witness ==
    /\ SchemaReturned
    /\ call.repeat
    /\ seen_schema.dims = call.vector_dims
    /\ seen_schema.schema = result.value

----------------------------------------------------------------------------
(* Properties of the validators *)

EnumCall == call.fn = "validate_enum_field"
ScoreCall == call.fn = "validate_score_range"

\* the error message has a part that is exactly this text
Mentions(parts, text) == \E i \in 1..Len(parts) : parts[i] = text

\* C5: for every enum field of ENUM_VALUES and every value, the enum
\* validator returns the value unchanged when it is one of the field's
\* allowed values, and otherwise raises a ValueError whose message names the
\* field, the value and the allowed list; it never returns a value that is
\* not allowed.
C5_EnumValidatorAcceptsExactlyAllowed ==
    EnumCall =>
        LET allowed == {call.allowed_values.v[i] :
                            i \in 1..Len(call.allowed_values.v)}
        IN  /\ call.allowed_values = ENUM_VALUES[call.field_name]
            /\ call.value \in allowed => result = Returned(call.value)
            /\ call.value \notin allowed =>
                   /\ result.kind = "raise"
                   /\ result.type = "ValueError"
                   /\ Mentions(result.parts, call.field_name)
                   /\ Mentions(result.parts, PyFormat(call.value))
                   /\ Mentions(result.parts, PyFormat(call.allowed_values))
            /\ result.kind = "return" => result.value \in allowed

C5_Witness ==
    /\ EnumCall
    /\ call.field_name = "RiskLevel"
    /\ call.value = PyStr("Pending")
    /\ result.kind = "raise"

C5_WitnessAccepted ==
    /\ EnumCall
    /\ call.field_name = "DocumentStatus"
    /\ call.value = PyStr("UnderReview")
    /\ result = Returned(PyStr("UnderReview"))

\* min_val <= value <= max_val, as numbers
InClosedInterval(value, min_val, max_val) ==
    /\ ~IsNaN(value) /\ ~IsNaN(min_val) /\ ~IsNaN(max_val)
    /\ ~NumLt(value, min_val)
    /\ ~NumLt(max_val, value)

ScoreErrorNamesAll ==
    /\ result.kind = "raise"
    /\ result.type = "ValueError"
    /\ Mentions(result.parts, call.field_name)
    /\ Mentions(result.parts, PyFormat(call.value))
    /\ Mentions(result.parts, PyFormat(call.min_val))
    /\ Mentions(result.parts, PyFormat(call.max_val))

\* C6: the range validator accepts exactly the closed interval
\* [min_val, max_val]: it returns the value unchanged when
\* min_val <= value <= max_val, both boundary values included, and accepts
\* nothing else; a value it does not accept gets a ValueError naming the
\* field, the value and the bounds.
C6_RangeValidatorAcceptsExactlyInterval ==
    ScoreCall =>
        IF InClosedInterval(call.value, call.min_val, call.max_val)
        THEN result = Returned(call.value)
        ELSE ScoreErrorNamesAll

\* what the range validator does do: a value that is a number (not nan) is
\* accepted exactly when it lies in the closed interval
RangeValidatorExactOnNumbers ==
    (ScoreCall /\ ~IsNaN(call.value)) =>
        IF InClosedInterval(call.value, call.min_val, call.max_val)
        THEN result = Returned(call.value)
        ELSE ScoreErrorNamesAll

----------------------------------------------------------------------------
(* Properties of the record builder *)

RecordReturned ==
    call.fn = "create_example_record" /\ result.kind = "return"

\* the model, URL and vector of slots 02 to 05 are all null
OtherSlotsNull(record) ==
    /\ record.DocumentEmbeddingModel02 = PyNone
    /\ record.DocumentEmbeddingURL02 = PyNone
    /\ record.DocumentEmbeddingVectors02 = PyNone
    /\ record.DocumentEmbeddingModel03 = PyNone
    /\ record.DocumentEmbeddingURL03 = PyNone
    /\ record.DocumentEmbeddingVectors03 = PyNone
    /\ record.DocumentEmbeddingModel04 = PyNone
    /\ record.DocumentEmbeddingURL04 = PyNone
    /\ record.DocumentEmbeddingVectors04 = PyNone
    /\ record.DocumentEmbeddingModel05 = PyNone
    /\ record.DocumentEmbeddingURL05 = PyNone
    /\ record.DocumentEmbeddingVectors05 = PyNone

\* C7: a record built with no embedding vector has ContainsPII false,
\* DocumentStatus "Active", DocumentChunkNumber 1, a null model and a null
\* vector in slot 01, a UUID that is a string (of the 36 characters of the
\* canonical form), and the caller's user, document name and chunk text
\* unchanged.
C7_RecordDefaultsWithoutVector ==
    (RecordReturned /\ call.embedding_vector = PyNone) =>
        LET record == result.value
        IN  /\ record.ContainsPII = PyBool(FALSE)
            /\ record.DocumentStatus = PyStr("Active")
            /\ record.DocumentChunkNumber = PyInt(0, 1)
            /\ record.DocumentEmbeddingModel01 = PyNone
            /\ record.DocumentEmbeddingVectors01 = PyNone
            /\ record.UUID.t = "str"
            /\ Len(record.UUID.v) = 36
            /\ record.InsertUser = call.insert_user
            /\ record.SourceDocumentName = call.document_name
            /\ record.DocumentChunkText = call.chunk_text

C7_Witness ==
    /\ RecordReturned
    /\ call.embedding_vector = PyNone
    /\ result.value.InsertUser = PyStr("bob")
    /\ result.value.SourceDocumentName = PyStr("doc.pdf")
    /\ result.value.DocumentChunkText = PyStr("")

\* C8: a record built with a supplied embedding vector has the placeholder
\* "example-model" as the model of slot 01 and the supplied vector as its
\* vector, and slots 02 to 05 all null.
C8_SuppliedVectorFillsSlot01 ==
    (RecordReturned /\ call.embedding_vector # PyNone) =>
        LET record == result.value
        IN  /\ record.DocumentEmbeddingModel01 = PyStr("example-model")
            /\ record.DocumentEmbeddingVectors01 = call.embedding_vector
            /\ OtherSlotsNull(record)

\* what the record builder does do: the placeholder goes with every
\* supplied vector that has at least one element
NonEmptyVectorFillsSlot01 ==
    (RecordReturned /\ call.embedding_vector # PyNone
                    /\ Len(call.embedding_vector.v) > 0) =>
        LET record == result.value
        IN  /\ record.DocumentEmbeddingModel01 = PyStr("example-model")
            /\ record.DocumentEmbeddingVectors01 = call.embedding_vector
            /\ OtherSlotsNull(record)

\* 0 <= r <= 2^48 - 1, for an int of two 24-bit limbs
RowIdInRange(r) ==
    /\ r.t = "int"
    /\ r.hi \in 0..16777215
    /\ r.lo \in 0..16777215

\* C9: a record built without a row identifier has a null vastdb_rowid; one
\* built with an identifier r, 0 <= r <= 2^48 - 1, has vastdb_rowid = r.
C9_RowIdCarriedUnchanged ==
    RecordReturned =>
        /\ call.vastdb_rowid = PyNone => result.value.vastdb_rowid = PyNone
        /\ RowIdInRange(call.vastdb_rowid) =>
               result.value.vastdb_rowid = call.vastdb_rowid

C9_Witness ==
    /\ RecordReturned
    /\ call.vastdb_rowid = PyInt(16777215, 16777215)
    /\ result.value.vastdb_rowid = PyInt(16777215, 16777215)

C9_WitnessZero ==
    /\ RecordReturned
    /\ call.vastdb_rowid = PyInt(0, 0)
    /\ result.value.vastdb_rowid = PyInt(0, 0)

ColumnNames(schema) == {schema[i].name : i \in 1..Len(schema)}

\* C10: the record returned has exactly the column names of the schema as
\* its keys, one key a column: none missing, none extra, for the schema of
\* every dimension and for the one an earlier call returned.
C10_RecordKeysAreSchemaColumns ==
    RecordReturned =>
        /\ \A d \in Dims \cup {VECTOR_DIMENSIONS} :
               LET schema == create_ai_documents_schema(d)
               IN  /\ DOMAIN result.value = ColumnNames(schema)
                   /\ Cardinality(DOMAIN result.value) = Len(schema)
        /\ seen_schema # NoSchema =>
               /\ DOMAIN result.value = ColumnNames(seen_schema.schema)
               /\ Cardinality(DOMAIN result.value) = Len(seen_schema.schema)

C10_Witness ==
    /\ RecordReturned
    /\ seen_schema # NoSchema
    /\ call.embedding_vector # PyNone
    /\ "DocumentVersion" \in DOMAIN result.value
    /\ Cardinality(DOMAIN result.value) = Len(seen_schema.schema)

\* the five provider slots: the keys of the model, the URL and the vector
EmbeddingSlots == <<
    <<"DocumentEmbeddingModel01", "DocumentEmbeddingURL01",
      "DocumentEmbeddingVectors01">>,
    <<"DocumentEmbeddingModel02", "DocumentEmbeddingURL02",
      "DocumentEmbeddingVectors02">>,
    <<"DocumentEmbeddingModel03", "DocumentEmbeddingURL03",
      "DocumentEmbeddingVectors03">>,
    <<"DocumentEmbeddingModel04", "DocumentEmbeddingURL04",
      "DocumentEmbeddingVectors04">>,
    <<"DocumentEmbeddingModel05", "DocumentEmbeddingURL05",
      "DocumentEmbeddingVectors05">>
>>

\* C17: no slot of a record built is half-populated: for every
\* embedding_vector handed in (none, an empty list, a list with elements)
\* and each of the five slots, the model is null exactly when the vector is
\* null, and a slot without a model has its URL and vector null too.
C17_SlotsNeverHalfPopulated ==
    RecordReturned =>
        \A k \in 1..Len(EmbeddingSlots) :
            LET model == result.value[EmbeddingSlots[k][1]]
                url == result.value[EmbeddingSlots[k][2]]
                vector == result.value[EmbeddingSlots[k][3]]
            IN  /\ (model = PyNone) <=> (vector = PyNone)
                /\ model = PyNone => (url = PyNone /\ vector = PyNone)

\* what the record builder does do: slots 02 to 05 are always all null, and
\* slot 01 has a model exactly when its vector has at least one element
SlotsPopulatedByTruth ==
    RecordReturned =>
        /\ OtherSlotsNull(result.value)
        /\ (result.value.DocumentEmbeddingModel01 # PyNone)
               <=> Truthy(result.value.DocumentEmbeddingVectors01)

\* C18: each of the 13 fields keyed in ENUM_VALUES holds, in a record
\* built, null or one of the field's allowed values, and the defaults are
\* ContainsPII false, RiskLevel "Low", AccessControlLevel "Internal" and
\* DataValidationStatus "Pending".
C18_EnumFieldsOfRecordAllowed ==
    RecordReturned =>
        /\ Cardinality(DOMAIN ENUM_VALUES) = 13
        /\ \A f \in DOMAIN ENUM_VALUES :
               \/ result.value[f] = PyNone
               \/ PyIn(result.value[f], ENUM_VALUES[f])
        /\ result.value.ContainsPII = PyBool(FALSE)
        /\ result.value.RiskLevel = PyStr("Low")
        /\ result.value.AccessControlLevel = PyStr("Internal")
        /\ result.value.DataValidationStatus = PyStr("Pending")

C18_Witness ==
    /\ RecordReturned
    /\ result.value.SensitiveDataClassification = PyStr("None")
    /\ result.value.DeletionStatus = PyNone
    /\ validate_enum_field(result.value.RiskLevel, ENUM_VALUES.RiskLevel,
                           "RiskLevel") = Returned(PyStr("Low"))

\* C19: every populated embedding vector of a record built has as many
\* elements as the dimension N the table schema was built with, whatever
\* embedding_vector the caller hands in.
C19_VectorLengthIsSchemaDimension ==
    (RecordReturned /\ seen_schema # NoSchema /\ seen_schema.dims > 0) =>
        \A k \in 1..Len(EmbeddingSlots) :
            LET vector == result.value[EmbeddingSlots[k][3]]
            IN  vector # PyNone => Len(vector.v) = seen_schema.dims

----------------------------------------------------------------------------
(* Properties of the provisioning *)

ProvisionCall == call.fn = "create_table_in_vastdb"

\* how often, and where, the call in `call` made a call into the service
Count(op) == Cardinality({i \in 1..Len(svc_log) : svc_log[i].op = op})
Called(op) == Count(op) > 0
Position(op) == CHOOSE i \in 1..Len(svc_log) : svc_log[i].op = op
LastOp == svc_log[Len(svc_log)].op

\* the calls into the service that create_table_in_vastdb makes
ServiceOps ==
    {"connect", "transaction", "bucket", "schema", "create_schema", "table",
     "drop", "create_table"}

\* C11: whenever create_table_in_vastdb(table_name, vector_dims,
\* drop_existing) returns True, whatever the database held before, the
\* table table_name exists and its schema equals
\* create_ai_documents_schema(vector_dims).
C11_ProvisioningEnsuresExactSchema ==
    (ProvisionCall /\ result = Returned(PyBool(TRUE))) =>
        /\ db.tables[call.table_name] # NoTable
        /\ db.tables[call.table_name]
               = create_ai_documents_schema(call.vector_dims)

\* what does hold: the table exists after True, and has the schema asked
\* for when the call created it (it was absent, or drop_existing was set)
ProvisioningEnsuresSchemaWhenCreated ==
    (ProvisionCall /\ result = Returned(PyBool(TRUE))) =>
        /\ db.tables[call.table_name] # NoTable
        /\ (call.before.tables[call.table_name] = NoTable
               \/ call.drop_existing) =>
              db.tables[call.table_name]
                  = create_ai_documents_schema(call.vector_dims)
        /\ (call.before.tables[call.table_name] # NoTable
               /\ ~call.drop_existing) =>
              db.tables[call.table_name]
                  = call.before.tables[call.table_name]

\* C14: one invocation of create_table_in_vastdb connects at most once,
\* drops at most once and creates the table at most once; when a call into
\* the service fails, the caller gets that very error, the failed call is
\* the last one made and was made once, and nothing is committed.
C14_NoRetryNoSwallow ==
    ProvisionCall =>
        /\ Count("connect") <= 1
        /\ Count("drop") <= 1
        /\ Count("create_table") <= 1
        /\ call.fault \in ServiceOps =>
              /\ result = ServiceError(call.fault)
              /\ LastOp = call.fault
              /\ Count(call.fault) = 1
              /\ db = call.before
        /\ (Called("bucket") /\ BUCKET_NAME \notin call.before.buckets) =>
              /\ result = ServiceError("bucket")
              /\ LastOp = "bucket"
              /\ db = call.before

\* the drop failed after the lookups went through
C14_Witness ==
    /\ ProvisionCall
    /\ call.fault = "drop"
    /\ result = ServiceError("drop")
    /\ Count("connect") = 1

\* C15: once the table lookup has answered: if the table is absent,
\* create_table is called once and drop never; if it exists and
\* drop_existing is false, neither is called, True is returned and the
\* tables are as before; if it exists and drop_existing is true, drop is
\* called exactly once, and (unless the drop itself fails, which ends the
\* call) create_table exactly once after it, in the one transaction.
C15_ProvisioningStepOrder ==
    (ProvisionCall /\ Called("table") /\ call.fault # "table") =>
        LET existed == call.before.tables[call.table_name] # NoTable
        IN  /\ Count("transaction") = 1
            /\ ~existed =>
                  /\ Count("drop") = 0
                  /\ Count("create_table") = 1
            /\ (existed /\ ~call.drop_existing) =>
                  /\ Count("drop") = 0
                  /\ Count("create_table") = 0
                  /\ result = Returned(PyBool(TRUE))
                  /\ db.tables = call.before.tables
            /\ (existed /\ call.drop_existing) =>
                  /\ Count("drop") = 1
                  /\ Count("create_table") <= 1
                  /\ call.fault # "drop" =>
                        /\ Count("create_table") = 1
                        /\ Position("transaction") < Position("drop")
                        /\ Position("drop") < Position("create_table")

\* an existing table of another shape was dropped and created anew
C15_Witness ==
    /\ ProvisionCall
    /\ call.drop_existing
    /\ call.before.tables[call.table_name] = LegacySchema
    /\ result = Returned(PyBool(TRUE))
    /\ tx_outcome = "commit"
    /\ Called("drop")

----------------------------------------------------------------------------
(* Properties of the command line *)

CliCall == call.fn = "__main__"

CredentialsPresent == VAST_ACCESS_KEY # "" /\ VAST_SECRET_KEY # ""

\* the provisioning of the run in `call` did not give True
ProvisioningFailed ==
    create_table_in_vastdb(call.before, TABLE_NAME, call.dims, call.drop,
                           call.fault).result # Returned(PyBool(TRUE))

\* C12: a run with --create while the access key or the secret key is
\* empty exits with code 1 and makes no call into the database service.
C12_MissingCredentialsExitOne ==
    (CliCall /\ call.create /\ ~CredentialsPresent) =>
        /\ result.kind = "exit"
        /\ result.code = 1
        /\ svc_log = <<>>
        /\ tx_outcome = "none"
        /\ db = call.before

\* one key is there, the SDK too, and the run stopped at the keys
C12_Witness ==
    /\ CliCall
    /\ call.create
    /\ VAST_ACCESS_KEY # ""
    /\ VAST_SECRET_KEY = ""
    /\ VASTDB_AVAILABLE
    /\ result.printed # <<>>
    /\ result.printed[Len(result.printed)] = "credentials_error"

ExitCodes ==
    /\ (call.create /\ CredentialsPresent /\ ProvisioningFailed) =>
          result.code = 1
    /\ (~call.create
           \/ (call.create /\ CredentialsPresent /\ ~ProvisioningFailed)) =>
          result.code = 0

\* C13: with --create and the keys present the run exits with code 1
\* whenever the provisioning raises or returns False; every other run
\* (the provisioning succeeded, or --create was not given, with any of
\* --info, --drop, --dims, --examples) exits with code 0.
C13_CliExitCodes == CliCall => ExitCodes

\* what does hold: those exit codes, for the --dims that PyArrow takes as a
\* list size
ExitCodesOnAcceptedDims ==
    (CliCall /\ ~pa_list_rejects(call.dims)) => ExitCodes

\* C16: a run with --drop and without --create makes no call into the
\* database service and leaves the database as it was; drop is called only
\* in a run with --create and --drop, with both keys present, that found
\* the table there.
C16_DropFlagInertAlone ==
    CliCall =>
        /\ (call.drop /\ ~call.create) =>
              /\ svc_log = <<>>
              /\ db = call.before
        /\ Called("drop") =>
              /\ call.create
              /\ call.drop
              /\ CredentialsPresent
              /\ call.before.tables[TABLE_NAME] # NoTable

\* --drop alone, where --create --drop would have dropped the table
C16_Witness ==
    /\ CliCall
    /\ call.drop
    /\ ~call.create
    /\ CredentialsPresent
    /\ VASTDB_AVAILABLE
    /\ call.before.tables[TABLE_NAME] # NoTable
    /\ result.code = 0

====
